---- MODULE Spec2Model ----
(***************************************************************************)
(* A model of the crisp-tone-plugin servers.  The repository holds five    *)
(* editions of the same server; the variable `variant` says which one a    *)
(* behaviour is about:                                                     *)
(*   "memory"     src/server.js 1-491      config held in memory           *)
(*   "file"       src/unnamed/part_001     one config, saved to a file     *)
(*   "tenant"     src/server.js 493-921    config/<website_id>.json        *)
(*   "data"       src/server.js 923-1285   data/<website_id>.json          *)
(*   "classifier" src/server.js 1287-1537  local toxicity model            *)
(*                                                                         *)
(* A JavaScript string is a sequence of one-character strings, so that     *)
(* trim, toLowerCase, the regular expressions and path.basename are        *)
(* computed and not assumed.  A number is an integer count of tenths       *)
(* (-0.5 is -5, 0.8 is 8).                                                 *)
(***************************************************************************)
EXTENDS Integers, Sequences, FiniteSets, TLC

VARIABLES
    variant,        \* which edition of the server runs
    store,          \* the config files: file name -> config (DOMAIN = files that exist)
    pluginConfig,   \* `let pluginConfig` of the memory and file editions
    reqNo,          \* number of config requests handled so far
    lastReq,        \* the config request handled last
    lastResp,       \* the response it was given
    webhookNo,      \* number of POST /webhook requests received so far
    runs,           \* the webhook handlers in progress: slot -> run
    convTags,       \* the segments Crisp holds for the conversation
    ToxicityPipeline, \* the classifier edition's singleton: its static `instance`
    alert           \* what processMessage composed for the alert it fired last

configVars == <<variant, store, pluginConfig, reqNo, lastReq, lastResp>>
screenVars == <<webhookNo, runs, convTags, ToxicityPipeline, alert>>
vars ==
    <<variant, store, pluginConfig, reqNo, lastReq, lastResp, webhookNo, runs, convTags,
      ToxicityPipeline, alert>>

(***************************************************************************)
(* Strings                                                                 *)
(***************************************************************************)
UpperToLower == [c \in {"A", "V", "U"} |-> CASE c = "A" -> "a" [] c = "V" -> "v" [] c = "U" -> "u"]

LowerChar(c) == IF c \in DOMAIN UpperToLower THEN UpperToLower[c] ELSE c

ToLowerCase(s) == [i \in 1..Len(s) |-> LowerChar(s[i])]

IsSpace(c) == c = " "

RECURSIVE TrimStart(_)
TrimStart(s) == IF s # <<>> /\ IsSpace(Head(s)) THEN TrimStart(Tail(s)) ELSE s

RECURSIVE TrimEnd(_)
TrimEnd(s) ==
    IF s # <<>> /\ IsSpace(s[Len(s)]) THEN TrimEnd(SubSeq(s, 1, Len(s) - 1)) ELSE s

Trim(s) == TrimEnd(TrimStart(s))

\* [a-zA-Z0-9]
IsAlnum(c) ==
    c \in {"a", "b", "c", "d", "e", "f", "g", "h", "i", "j", "k", "l", "m", "n", "o",
           "p", "q", "r", "s", "t", "u", "v", "w", "x", "y", "z", "A", "V", "U",
           "0", "1", "2", "3", "4", "5", "6", "7", "8", "9"}

\* \w
IsWordChar(c) == IsAlnum(c) \/ c = "_"

(***************************************************************************)
(* JSON values, as typeof sees them                                        *)
(***************************************************************************)
JUndef == [type |-> "undefined", s |-> <<>>, n |-> 0, b |-> FALSE]
JStr(x) == [type |-> "string", s |-> x, n |-> 0, b |-> FALSE]
JNum(x) == [type |-> "number", s |-> <<>>, n |-> x, b |-> FALSE]
JBool(x) == [type |-> "boolean", s |-> <<>>, n |-> 0, b |-> x]

\* if (v)
Truthy(v) ==
    CASE v.type = "undefined" -> FALSE
      [] v.type = "string" -> v.s # <<>>
      [] v.type = "number" -> v.n # 0
      [] v.type = "boolean" -> v.b

Fields ==
    {"tagToApply", "negativeThreshold", "slackEnabled", "slackWebhookUrl",
     "highlightProfanity", "detectionEnabled"}

NoConfig == [f \in Fields |-> JUndef]

LexicalFields ==
    {"tagToApply", "negativeThreshold", "slackEnabled", "slackWebhookUrl",
     "highlightProfanity"}

MemoryFields == {"tagToApply", "negativeThreshold"}

ClassifierFields == {"tagToApply", "detectionEnabled", "slackEnabled", "slackWebhookUrl"}

(***************************************************************************)
(* Bounds and inputs of the config API                                     *)
(***************************************************************************)
MaxRequests == 2    \* config requests per behaviour

IdLen == 36

ProfanityAlert == <<"p", "r", "o", "f", "a", "n", "i", "t", "y", "-", "a", "l", "e", "r", "t">>
ToxicAlert == <<"t", "o", "x", "i", "c", "-", "a", "l", "e", "r", "t">>

\* process.env.SLACK_WEBHOOK_URL, TAG_TO_APPLY, NEGATIVE_THRESHOLD, SLACK_ENABLED and
\* HIGHLIGHT_PROFANITY are optional in the file and tenant editions: left unset.
EnvSlackWebhookUrl == <<>>

TenantA == [i \in 1..IdLen |-> "a"]
TenantB == [i \in 1..IdLen |-> "b"]
NestedA == <<"x", "/">> \o TenantA
DotDot == <<".", ".">>

\* website_id as it reaches a handler; <<>> is a missing (or empty) query parameter,
\* which a route parameter (/api/config/:website_id) cannot be
QueryIds == {<<>>, TenantA, TenantB, NestedA}
RouteIds == {TenantA, TenantB, NestedA, DotDot}

Body(tag, threshold, enabled, url, highlight, detection) ==
    [tagToApply |-> tag, negativeThreshold |-> threshold, slackEnabled |-> enabled,
     slackWebhookUrl |-> url, highlightProfanity |-> highlight,
     detectionEnabled |-> detection]

\* what the settings form submits: every field, validated by the page
FormBody ==
    Body(JStr(<<"v">>), JNum(-10), JBool(FALSE), JStr(<<>>), JBool(TRUE), JUndef)

\* req.body of POST /plugin-config
Bodies ==
    {Body(JUndef, JUndef, JUndef, JUndef, JUndef, JUndef),
     Body(JStr(<<"V", " ">>), JUndef, JUndef, JUndef, JUndef, JUndef),
     Body(JStr(<<" ">>), JNum(-10), JUndef, JUndef, JUndef, JUndef),
     Body(JNum(7), JUndef, JUndef, JUndef, JUndef, JUndef),
     Body(JUndef, JNum(-10), JUndef, JUndef, JUndef, JUndef),
     Body(JUndef, JStr(<<"x">>), JUndef, JUndef, JBool(FALSE), JUndef),
     Body(JUndef, JUndef, JBool(TRUE), JUndef, JUndef, JUndef),
     Body(JUndef, JUndef, JBool(TRUE), JStr(<<"u", " ">>), JUndef, JUndef),
     Body(JUndef, JUndef, JStr(<<"x">>), JStr(<<"u", " ">>), JUndef, JUndef),
     Body(JUndef, JUndef, JBool(FALSE), JNum(7), JUndef, JUndef),
     Body(JUndef, JUndef, JUndef, JStr(<<>>), JUndef, JUndef),
     Body(JUndef, JUndef, JUndef, JUndef, JBool(FALSE), JBool(FALSE)),
     FormBody}

Supplied(body) == {f \in Fields : body[f].type # "undefined"}

(***************************************************************************)
(* Config files                                                            *)
(***************************************************************************)
IsIdChar(c) == IsAlnum(c) \/ c = "-"

\* /^[a-zA-Z0-9-]{36}$/.test(websiteId)
MatchesIdPattern(id) == Len(id) = IdLen /\ \A i \in 1..Len(id) : IsIdChar(id[i])

RECURSIVE StripTrailingSlashes(_)
StripTrailingSlashes(p) ==
    IF p # <<>> /\ p[Len(p)] = "/"
    THEN StripTrailingSlashes(SubSeq(p, 1, Len(p) - 1))
    ELSE p

RECURSIVE LastSegment(_)
LastSegment(p) ==
    IF \E i \in 1..Len(p) : p[i] = "/"
    THEN LastSegment(Tail(p))
    ELSE p

\* path.basename (POSIX)
Basename(p) == LastSegment(StripTrailingSlashes(p))

NullPath == [kind |-> "null", file |-> <<>>]
ThrowPath == [kind |-> "throw", file |-> <<>>]
FilePath(f) == [kind |-> "path", file |-> f]

getConfigFilePathTenant(websiteId) ==
    IF websiteId = <<>> \/ ~MatchesIdPattern(websiteId) THEN NullPath ELSE FilePath(websiteId)

getConfigFilePathData(websiteId) ==
    LET safeWebsiteId == Basename(websiteId)
    IN  IF safeWebsiteId = <<>> \/ safeWebsiteId = <<".">> \/ safeWebsiteId = <<".", ".">>
        THEN ThrowPath
        ELSE FilePath(safeWebsiteId)

getConfigFilePathClassifier(websiteId) ==
    IF websiteId = <<>> \/ ~MatchesIdPattern(websiteId) THEN NullPath ELSE FilePath(websiteId)

\* CONFIG_FILE_PATH of the file edition
ConfigJson == <<"c", "o", "n", "f", "i", "g">>

DefaultsMemory ==
    [NoConfig EXCEPT !.tagToApply = JStr(ProfanityAlert), !.negativeThreshold = JNum(0)]

DefaultsFile ==
    [NoConfig EXCEPT !.tagToApply = JStr(ProfanityAlert), !.negativeThreshold = JNum(0),
                     !.slackEnabled = JBool(FALSE),
                     !.slackWebhookUrl = JStr(EnvSlackWebhookUrl),
                     !.highlightProfanity = JBool(FALSE)]

\* defaults that name the tag and the threshold only
DefaultsTwoFields ==
    [NoConfig EXCEPT !.tagToApply = JStr(ProfanityAlert), !.negativeThreshold = JNum(-5)]

DefaultsTenant ==
    [NoConfig EXCEPT !.tagToApply = JStr(ProfanityAlert), !.negativeThreshold = JNum(-5),
                     !.slackEnabled = JBool(FALSE),
                     !.slackWebhookUrl = JStr(EnvSlackWebhookUrl),
                     !.highlightProfanity = JBool(TRUE)]

DefaultsData ==
    [NoConfig EXCEPT !.tagToApply = JStr(ProfanityAlert), !.negativeThreshold = JNum(0),
                     !.slackEnabled = JBool(FALSE), !.slackWebhookUrl = JStr(<<>>),
                     !.highlightProfanity = JBool(TRUE)]

DefaultsClassifier ==
    [NoConfig EXCEPT !.tagToApply = JStr(ToxicAlert), !.detectionEnabled = JBool(TRUE),
                     !.slackEnabled = JBool(FALSE), !.slackWebhookUrl = JStr(<<>>)]

NullConfig == [kind |-> "null", cfg |-> NoConfig]
ThrowConfig == [kind |-> "throw", cfg |-> NoConfig]
Loaded(c) == [kind |-> "config", cfg |-> c]

\* The files are read back as written: fs.readFileSync and JSON.parse do not fail on
\* a file that JSON.stringify produced.
loadPluginConfigFile(files) ==
    IF ConfigJson \in DOMAIN files THEN Loaded(files[ConfigJson]) ELSE Loaded(DefaultsFile)

loadPluginConfigTenant(files, websiteId) ==
    LET configPath == getConfigFilePathTenant(websiteId)
    IN  IF configPath.kind = "null" THEN NullConfig
        ELSE IF configPath.file \in DOMAIN files THEN Loaded(files[configPath.file])
        ELSE Loaded(DefaultsTenant)

loadPluginConfigData(files, websiteId) ==
    LET filePath == getConfigFilePathData(websiteId)
    IN  IF filePath.kind = "throw" THEN ThrowConfig
        ELSE IF filePath.file \in DOMAIN files THEN Loaded(files[filePath.file])
        ELSE Loaded(DefaultsData)

loadPluginConfigClassifier(files, websiteId) ==
    LET configPath == getConfigFilePathClassifier(websiteId)
    IN  IF configPath.kind = "null" THEN NullConfig
        ELSE IF configPath.file \in DOMAIN files THEN Loaded(files[configPath.file])
        ELSE Loaded(DefaultsClassifier)

\* fs.writeFileSync(path, JSON.stringify(config)); writeOk is whether it succeeds
WriteFile(files, file, config, writeOk) ==
    IF writeOk THEN (file :> config) @@ files ELSE files

(***************************************************************************)
(* POST /plugin-config: validation and merge                               *)
(***************************************************************************)
\* the test each `if (typeof x === ...)` makes on a supplied field
FieldValid(f, v) ==
    CASE f = "tagToApply" -> v.type = "string" /\ Len(Trim(v.s)) > 0
      [] f = "negativeThreshold" -> v.type = "number"
      [] f = "slackEnabled" -> v.type = "boolean"
      [] f = "slackWebhookUrl" -> v.type = "string"
      [] f = "highlightProfanity" -> v.type = "boolean"
      [] OTHER -> FALSE

\* what is assigned for a valid field
FieldStored(f, v) ==
    IF f \in {"tagToApply", "slackWebhookUrl"} THEN JStr(Trim(v.s)) ELSE v

\* a handler that builds the new config from the body alone
MergeWholesale(config, body, fields) ==
    [f \in Fields |->
        IF f \in fields /\ FieldValid(f, body[f]) THEN FieldStored(f, body[f]) ELSE JUndef]

\* the config with every valid supplied field of `fields` assigned
MergeValid(config, body, fields) ==
    [f \in Fields |->
        IF f \in fields /\ FieldValid(f, body[f]) THEN FieldStored(f, body[f]) ELSE config[f]]

\* the fields for which an error is pushed
ValidationErrors(body, fields) ==
    {f \in fields : ~FieldValid(f, body[f]) /\ body[f].type # "undefined"}

\* `updated` of the memory and file editions
Updated(body, fields) == \E f \in fields : FieldValid(f, body[f])

\* the classifier edition assigns without validating
MergeClassifier(config, body) ==
    [f \in Fields |->
        CASE f = "tagToApply" -> IF Truthy(body[f]) THEN body[f] ELSE config[f]
          [] f = "detectionEnabled" -> IF body[f].type = "boolean" THEN body[f] ELSE config[f]
          [] f = "slackEnabled" -> IF body[f].type = "boolean" THEN body[f] ELSE config[f]
          [] f = "slackWebhookUrl" -> IF body[f].type = "string" THEN body[f] ELSE config[f]
          [] OTHER -> config[f]]

\* whether the classifier edition's handler assigns a property of currentConfig
AssignsClassifier(body) ==
    \/ Truthy(body.tagToApply)
    \/ body.detectionEnabled.type = "boolean"
    \/ body.slackEnabled.type = "boolean"
    \/ body.slackWebhookUrl.type = "string"

Response(status, ok, errors, config) ==
    [status |-> status, ok |-> ok, errors |-> errors, config |-> config]

\* a handler's outcome: the files, the in-memory config and the response
Outcome(files, memory, resp) == [store |-> files, pluginConfig |-> memory, resp |-> resp]

getPluginConfigMemory(files, memory) ==
    Outcome(files, memory,
            Response(200, TRUE, {},
                     [f \in Fields |-> IF f \in MemoryFields THEN memory[f] ELSE JUndef]))

postPluginConfigMemory(files, memory, body) ==
    LET applied == MergeValid(memory, body, MemoryFields)
        errors == ValidationErrors(body, MemoryFields)
    IN  IF errors # {} THEN Outcome(files, applied, Response(400, FALSE, errors, NoConfig))
        ELSE IF Updated(body, MemoryFields)
        THEN Outcome(files, applied, Response(200, TRUE, {}, applied))
        ELSE Outcome(files, applied, Response(400, FALSE, {}, NoConfig))

getPluginConfigFile(files, memory) ==
    Outcome(files, memory,
            Response(200, TRUE, {},
                     [f \in Fields |-> IF f \in LexicalFields THEN memory[f] ELSE JUndef]))

postPluginConfigFile(files, memory, body, writeOk) ==
    LET applied == MergeValid(memory, body, LexicalFields)
        errors == ValidationErrors(body, LexicalFields)
    IN  IF errors # {} THEN Outcome(files, applied, Response(400, FALSE, errors, NoConfig))
        ELSE IF Updated(body, LexicalFields)
        THEN Outcome(WriteFile(files, ConfigJson, applied, writeOk), applied,
                     Response(200, TRUE, {}, applied))
        ELSE Outcome(files, applied, Response(400, FALSE, {}, NoConfig))

getPluginConfigTenant(files, memory, websiteId) ==
    LET config == loadPluginConfigTenant(files, websiteId)
    IN  IF websiteId = <<>> THEN Outcome(files, memory, Response(400, FALSE, {}, NoConfig))
        ELSE IF config.kind = "null"
        THEN Outcome(files, memory, Response(400, FALSE, {}, NoConfig))
        ELSE Outcome(files, memory, Response(200, TRUE, {}, config.cfg))

\* a handler whose read was made before another update's write: it merges into the
\* defaults
PostStaleRead(files, memory, websiteId, body, writeOk) ==
    LET newConfig == MergeValid(DefaultsTenant, body, LexicalFields)
        errors == ValidationErrors(body, LexicalFields)
        configPath == getConfigFilePathTenant(websiteId)
    IN  IF configPath.kind = "null" \/ errors # {} \/ ~writeOk
        THEN Outcome(files, memory, Response(400, FALSE, errors, NoConfig))
        ELSE Outcome(WriteFile(files, configPath.file, newConfig, writeOk), memory,
                     Response(200, TRUE, {}, newConfig))

postPluginConfigTenant(files, memory, websiteId, body, writeOk) ==
    LET currentConfig == loadPluginConfigTenant(files, websiteId)
        newConfig == MergeValid(currentConfig.cfg, body, LexicalFields)
        errors == ValidationErrors(body, LexicalFields)
        configPath == getConfigFilePathTenant(websiteId)
    IN  IF websiteId = <<>> THEN Outcome(files, memory, Response(400, FALSE, {}, NoConfig))
        ELSE IF currentConfig.kind = "null"
        THEN Outcome(files, memory, Response(400, FALSE, {}, NoConfig))
        ELSE IF errors # {}
        THEN Outcome(files, memory, Response(400, FALSE, errors, NoConfig))
        ELSE IF configPath.kind = "path" /\ writeOk
        THEN Outcome(WriteFile(files, configPath.file, newConfig, writeOk), memory,
                     Response(200, TRUE, {}, newConfig))
        ELSE Outcome(files, memory, Response(500, FALSE, {}, NoConfig))

getPluginConfigData(files, memory, websiteId) ==
    LET config == loadPluginConfigData(files, websiteId)
    IN  IF config.kind = "throw"
        THEN Outcome(files, memory, Response(400, FALSE, {}, NoConfig))
        ELSE Outcome(files, memory, Response(200, TRUE, {}, config.cfg))

postPluginConfigData(files, memory, websiteId, body, writeOk) ==
    LET currentConfig == loadPluginConfigData(files, websiteId)
        newConfig == MergeValid(currentConfig.cfg, body, LexicalFields)
        errors == ValidationErrors(body, LexicalFields)
        filePath == getConfigFilePathData(websiteId)
    IN  IF currentConfig.kind = "throw"
        THEN Outcome(files, memory, Response(400, FALSE, {}, NoConfig))
        ELSE IF errors # {}
        THEN Outcome(files, memory, Response(400, FALSE, errors, NoConfig))
        ELSE Outcome(WriteFile(files, filePath.file, newConfig, writeOk), memory,
                     Response(200, TRUE, {}, newConfig))

getPluginConfigClassifier(files, memory, websiteId) ==
    LET config == loadPluginConfigClassifier(files, websiteId)
    IN  IF websiteId = <<>> THEN Outcome(files, memory, Response(400, FALSE, {}, NoConfig))
        ELSE IF config.kind = "null"
        THEN Outcome(files, memory, Response(400, FALSE, {}, NoConfig))
        ELSE Outcome(files, memory, Response(200, TRUE, {}, config.cfg))

\* With currentConfig null an assignment throws a TypeError, which Express answers
\* with 500; with nothing to assign savePluginConfig(websiteId, null) returns false.
postPluginConfigClassifier(files, memory, websiteId, body, writeOk) ==
    LET currentConfig == loadPluginConfigClassifier(files, websiteId)
        newConfig == MergeClassifier(currentConfig.cfg, body)
        configPath == getConfigFilePathClassifier(websiteId)
    IN  IF websiteId = <<>> THEN Outcome(files, memory, Response(400, FALSE, {}, NoConfig))
        ELSE IF currentConfig.kind = "null" /\ AssignsClassifier(body)
        THEN Outcome(files, memory, Response(500, FALSE, {}, NoConfig))
        ELSE IF configPath.kind = "path" /\ writeOk
        THEN Outcome(WriteFile(files, configPath.file, newConfig, writeOk), memory,
                     Response(200, TRUE, {}, newConfig))
        ELSE Outcome(files, memory, Response(500, FALSE, {}, NoConfig))

(***************************************************************************)
(* Screening: the profanity check                                          *)
(***************************************************************************)
Bad == <<"b", "a", "d">>

\* profanity.list of @2toad/profanity, cut down to one word
ProfanityList == {Bad}

Ok == <<"o", "k">>
BDotAd == <<"b", ".", "a", "d">>

\* data.content of the messages received
Messages == {Ok, Bad, BDotAd}

RECURSIVE TakeWord(_)
TakeWord(s) ==
    IF s # <<>> /\ IsWordChar(Head(s)) THEN <<Head(s)>> \o TakeWord(Tail(s)) ELSE <<>>

\* message.match(/\b\w+\b/g) || []
RECURSIVE Tokens(_)
Tokens(s) ==
    IF s = <<>> THEN <<>>
    ELSE IF IsWordChar(Head(s))
    THEN LET w == TakeWord(s) IN <<w>> \o Tokens(SubSeq(s, Len(w) + 1, Len(s)))
    ELSE Tokens(Tail(s))

InProfaneList(token) == ToLowerCase(token) \in {ToLowerCase(w) : w \in ProfanityList}

getAllProfanitiesInMessage(message) == SelectSeq(Tokens(message), InProfaneList)

\* \b between s[i] and s[i+1]
WordBoundary(s, i) ==
    (i >= 1 /\ i <= Len(s) /\ IsWordChar(s[i]))
        # (i + 1 >= 1 /\ i + 1 <= Len(s) /\ IsWordChar(s[i + 1]))

\* profanity.exists(text): the library's whole-word, case-insensitive search,
\* new RegExp(`\\b(${words})\\b`, 'i').test(text)
ProfanityExists(text) ==
    \E w \in ProfanityList :
        \E i \in 0..(Len(text) - Len(w)) :
            /\ ToLowerCase(SubSeq(text, i + 1, i + Len(w))) = ToLowerCase(w)
            /\ WordBoundary(text, i)
            /\ WordBoundary(text, i + Len(w))

KeptByNormalize(c) == IsAlnum(c) \/ IsSpace(c)

\* content.replace(/[^a-zA-Z0-9\s]/g, '')
NormalizedContent(content) == SelectSeq(content, KeptByNormalize)

LexicalVariants == {"memory", "file", "tenant", "data"}

\* a check that lets every message through
AnyMessagePasses(v, content) == TRUE

\* `if (profanity.exists(content) || profanity.exists(normalizedContent))`; the tenant
\* edition tests the content alone
PassesProfanityCheck(v, content) ==
    IF v = "tenant"
    THEN ProfanityExists(content)
    ELSE ProfanityExists(content) \/ ProfanityExists(NormalizedContent(content))

\* sentiment.analyze(content).comparative, in tenths: the scorer is a library, a
\* message may be given any of these
Scores == {-10, -5, 0}

\* a comparison that also fires at the threshold
AtMostThreshold(score, threshold) == score <= threshold

\* `analysis.comparative < config.negativeThreshold`
BelowThreshold(score, threshold) == score < threshold

\* the score of the 'toxic' label in tenths; JUndef when the result has no such label
ToxicScores == {JNum(7), JNum(8), JNum(9), JUndef}

\* `toxicResult && toxicResult.score > 0.8`
\* a test that fires at the constant too
AtLeastToxic(toxicResult) == toxicResult.type = "number" /\ toxicResult.n >= 8

IsToxic(toxicResult) == toxicResult.type = "number" /\ toxicResult.n > 8

\* what a run holds for a score when the scorer threw or rejected
Thrown == [type |-> "thrown", s |-> <<>>, n |-> 0, b |-> FALSE]

\* sentiment.analyze(content): an analysis with its comparative score, or a throw
Analyses ==
    {[kind |-> "analysis", comparative |-> score] : score \in Scores}
        \cup {[kind |-> "throw", comparative |-> 0]}

\* await classifier(content): the 'toxic' entry of the results, or a rejection
ClassifierResults == ToxicScores \cup {Thrown}

(***************************************************************************)
(* Screening: webhook events and runs                                      *)
(***************************************************************************)
MaxWebhooks == 2    \* POST /webhook requests per behaviour

\* the webhook handlers that can be in progress at once
Runs == {1, 2}

NoEvent == [event |-> "", from |-> "", type |-> "", content |-> JUndef, website_id |-> <<>>]

UserText(content, websiteId) ==
    [event |-> "message:send", from |-> "user", type |-> "text",
     content |-> JStr(content), website_id |-> websiteId]

\* req.body of POST /webhook; session_id is always that of the one conversation
Events ==
    {UserText(m, TenantA) : m \in Messages}
        \cup {UserText(<<>>, TenantA),
              UserText(Bad, NestedA),
              [UserText(Bad, TenantA) EXCEPT !.event = "message:received"],
              [UserText(Bad, TenantA) EXCEPT !.from = "operator"],
              [UserText(Bad, TenantA) EXCEPT !.type = "file"],
              [UserText(Bad, TenantA) EXCEPT !.content = JNum(7)]}

\* SLACK_WEBHOOK_URL of the memory edition, which does not start without it
SlackWebhookUrl == <<"u">>

Vip == <<"v", "i", "p">>

\* pc: "idle", "scoring" (awaiting the classifier), "running" (awaiting the dispatch
\*     operations), "done"
\* note, slack, tag: where each dispatch operation stands
\* out: what the handler has done so far, in order
IdleRun ==
    [pc |-> "idle", event |-> NoEvent, status |-> 0, config |-> NoConfig,
     score |-> JUndef, fired |-> FALSE, note |-> "none", slack |-> "none",
     tag |-> "none", segments |-> <<>>, out |-> <<>>]

\* a handler that has returned keeps nothing
DoneRun == [IdleRun EXCEPT !.pc = "done"]

InFlight == {"pending", "get", "patch", "fallback"}

Count(seq, x) == Cardinality({i \in 1..Len(seq) : seq[i] = x})

\* Array.from(new Set(seq))
RECURSIVE Unique(_)
Unique(seq) ==
    IF seq = <<>> THEN <<>>
    ELSE LET rest == Unique(SubSeq(seq, 1, Len(seq) - 1))
             last == seq[Len(seq)]
         IN  IF \E i \in 1..Len(rest) : rest[i] = last THEN rest ELSE Append(rest, last)

NonEmpty(s) == s # <<>>

TrimLower(s) == ToLowerCase(Trim(s))

Includes(seq, x) == \E i \in 1..Len(seq) : seq[i] = x

(***************************************************************************)
(* The note of an alert                                                    *)
(***************************************************************************)
BadBad == Bad \o <<" ">> \o Bad
BadBAd == Bad \o <<" ">> \o <<"b", "A", "d">>
OkBad == Ok \o <<" ">> \o Bad

\* data.content of the messages an alert is composed for
NoteMessages == {Bad, <<"b", "A", "d">>, BadBad, BadBAd, OkBad, BDotAd}

\* analysis.comparative, in tenths
NoteScores == {-15, -10, -5, 0, 5, 10, 15}

\* negativeThreshold, in tenths: the default, and one above every score
NoteThresholds == {0, 20}

\* a summary that puts the boundary -1 in the bucket above
SummaryOpenAtMinusOne(score) ==
    IF score < -10 THEN "Very Negative"
    ELSE IF score < 0 THEN "Negative"
    ELSE IF score = 0 THEN "Neutral"
    ELSE IF score < 10 THEN "Positive"
    ELSE "Very Positive"

getSentimentSummary(score) ==
    IF score <= -10 THEN "Very Negative"
    ELSE IF score < 0 THEN "Negative"
    ELSE IF score = 0 THEN "Neutral"
    ELSE IF score < 10 THEN "Positive"
    ELSE "Very Positive"

\* whether new RegExp(`\\b${word}\\b`, 'gi') matches text at position i
MatchesAt(text, word, i) ==
    /\ i + Len(word) - 1 <= Len(text)
    /\ ToLowerCase(SubSeq(text, i, i + Len(word) - 1)) = ToLowerCase(word)
    /\ WordBoundary(text, i - 1)
    /\ WordBoundary(text, i + Len(word) - 1)

\* text.replace(regex, match => `**${match}**`), from position i on
RECURSIVE ReplaceFrom(_, _, _)
ReplaceFrom(text, word, i) ==
    IF i > Len(text) THEN <<>>
    ELSE IF MatchesAt(text, word, i)
    THEN <<"*", "*">> \o SubSeq(text, i, i + Len(word) - 1) \o <<"*", "*">>
             \o ReplaceFrom(text, word, i + Len(word))
    ELSE <<text[i]>> \o ReplaceFrom(text, word, i + 1)

\* uniqueProfaneWords.forEach(word => { highlighted = highlighted.replace(..) })
RECURSIVE ForEachWord(_, _)
ForEachWord(highlighted, words) ==
    IF words = <<>> THEN highlighted
    ELSE ForEachWord(ReplaceFrom(highlighted, Head(words), 1), Tail(words))

\* the memory edition has no highlightProfanity setting and always highlights
highlightProfanity(v, message, config) ==
    LET profaneWords == getAllProfanitiesInMessage(message)
    IN  IF v # "memory" /\ ~Truthy(config.highlightProfanity) THEN message
        ELSE IF profaneWords = <<>> THEN message
        ELSE ForEachWord(message, Unique(profaneWords))

NoAlert ==
    [content |-> <<>>, score |-> 0, highlightProfanity |-> JUndef,
     uniqueProfaneWords |-> <<>>, highlightedMessage |-> <<>>, sentimentSummary |-> ""]

\* processMessage between its decision to alert and Promise.allSettled
composeAlert(v, content, score, config) ==
    [content |-> content, score |-> score,
     highlightProfanity |-> config.highlightProfanity,
     uniqueProfaneWords |-> Unique(getAllProfanitiesInMessage(content)),
     highlightedMessage |-> highlightProfanity(v, content, config),
     sentimentSummary |-> getSentimentSummary(score)]

(***************************************************************************)
(* The classifier edition's model                                          *)
(***************************************************************************)
\* static instance = null. `instance` is 0 for null, else the number of the load
\* whose promise it holds; `status` is the state of that promise
Unloaded == [instance |-> 0, loads |-> 0, status |-> "none"]

\* a getInstance that starts a load at every call
GetInstanceReloads(pipeline) ==
    [instance |-> pipeline.loads + 1, loads |-> pipeline.loads + 1, status |-> "pending"]

\* ToxicityPipeline.getInstance: the static after the call; the caller is returned
\* its `instance`
getInstance(pipeline) ==
    IF pipeline.instance = 0
    THEN [instance |-> pipeline.loads + 1, loads |-> pipeline.loads + 1,
          status |-> "pending"]
    ELSE pipeline

\* the module has been evaluated: the classifier edition has called getInstance once,
\* the other editions have no model
Evaluated(v) == IF v = "classifier" THEN getInstance(Unloaded) ELSE Unloaded

\* the model has been loaded
ModelReady(pipeline) == [pipeline EXCEPT !.status = "fulfilled"]

\* a server that registers its routes and listens when the module is evaluated
ListensAtStart(v, pipeline) == pipeline.status # "rejected"

\* app.listen has been called: at once in the lexical editions, in the .then of the
\* first getInstance() in the classifier edition, where a failed load ends the process
Listening(v, pipeline) == v # "classifier" \/ pipeline.status = "fulfilled"

(***************************************************************************)
(* The config API as actions                                               *)
(***************************************************************************)
ConfigVariants == {"memory", "file", "tenant", "data", "classifier"}

NoRequest == [method |-> "none", id |-> <<>>, body |-> NoConfig]
NoResponse == Response(0, FALSE, {}, NoConfig)

InitConfig ==
    /\ variant \in ConfigVariants
    /\ store = <<>>
    /\ pluginConfig = CASE variant = "memory" -> DefaultsMemory
                        [] variant = "file" -> loadPluginConfigFile(<<>>).cfg
                        [] OTHER -> NoConfig
    /\ reqNo = 0
    /\ lastReq = NoRequest
    /\ lastResp = NoResponse
    /\ webhookNo = 0
    /\ runs = [r \in Runs |-> IdleRun]
    /\ convTags = <<>>
    /\ ToxicityPipeline = ModelReady(Evaluated(variant))
    /\ alert = NoAlert

\* one request handled: its outcome becomes the state
Handled(method, id, body, out) ==
    /\ reqNo < MaxRequests
    /\ reqNo' = reqNo + 1
    /\ lastReq' = [method |-> method, id |-> id, body |-> body]
    /\ lastResp' = out.resp
    /\ store' = out.store
    /\ pluginConfig' = out.pluginConfig
    /\ UNCHANGED <<variant, screenVars>>

GetPluginConfigMemory ==
    /\ variant = "memory"
    /\ Handled("GET", <<>>, NoConfig, getPluginConfigMemory(store, pluginConfig))

PostPluginConfigMemory ==
    /\ variant = "memory"
    /\ \E body \in Bodies :
          Handled("POST", <<>>, body, postPluginConfigMemory(store, pluginConfig, body))

GetPluginConfigFile ==
    /\ variant = "file"
    /\ Handled("GET", <<>>, NoConfig, getPluginConfigFile(store, pluginConfig))

PostPluginConfigFile ==
    /\ variant = "file"
    /\ \E body \in Bodies, writeOk \in BOOLEAN :
          Handled("POST", <<>>, body,
                  postPluginConfigFile(store, pluginConfig, body, writeOk))

GetPluginConfigTenant ==
    /\ variant = "tenant"
    /\ \E id \in QueryIds :
          Handled("GET", id, NoConfig, getPluginConfigTenant(store, pluginConfig, id))

PostPluginConfigTenant ==
    /\ variant = "tenant"
    /\ \E id \in QueryIds, body \in Bodies, writeOk \in BOOLEAN :
          Handled("POST", id, body,
                  postPluginConfigTenant(store, pluginConfig, id, body, writeOk))

GetPluginConfigData ==
    /\ variant = "data"
    /\ \E id \in RouteIds :
          Handled("GET", id, NoConfig, getPluginConfigData(store, pluginConfig, id))

PostPluginConfigData ==
    /\ variant = "data"
    /\ \E id \in RouteIds, body \in Bodies, writeOk \in BOOLEAN :
          Handled("POST", id, body,
                  postPluginConfigData(store, pluginConfig, id, body, writeOk))

GetPluginConfigClassifier ==
    /\ variant = "classifier"
    /\ \E id \in QueryIds :
          Handled("GET", id, NoConfig, getPluginConfigClassifier(store, pluginConfig, id))

PostPluginConfigClassifier ==
    /\ variant = "classifier"
    /\ \E id \in QueryIds, body \in Bodies, writeOk \in BOOLEAN :
          Handled("POST", id, body,
                  postPluginConfigClassifier(store, pluginConfig, id, body, writeOk))

NextConfig ==
    \/ GetPluginConfigMemory
    \/ PostPluginConfigMemory
    \/ GetPluginConfigFile
    \/ PostPluginConfigFile
    \/ GetPluginConfigTenant
    \/ PostPluginConfigTenant
    \/ GetPluginConfigData
    \/ PostPluginConfigData
    \/ GetPluginConfigClassifier
    \/ PostPluginConfigClassifier

SpecConfig == InitConfig /\ [][NextConfig]_vars

(***************************************************************************)
(* What a later request would see                                          *)
(***************************************************************************)
AllIds == QueryIds \cup RouteIds

PerTenantVariants == {"tenant", "data", "classifier"}

\* the fields POST /plugin-config validates in edition v
ValidatedFields(v) ==
    CASE v = "memory" -> MemoryFields
      [] v \in {"file", "tenant", "data"} -> LexicalFields
      [] OTHER -> {}

\* getConfigFilePath of edition v
ConfigFilePath(v, id) ==
    CASE v = "tenant" -> getConfigFilePathTenant(id)
      [] v = "data" -> getConfigFilePathData(id)
      [] v = "classifier" -> getConfigFilePathClassifier(id)
      [] OTHER -> FilePath(ConfigJson)

\* the response a GET for id would be given in edition v
ReadConfig(v, files, memory, id) ==
    CASE v = "memory" -> getPluginConfigMemory(files, memory).resp
      [] v = "file" -> getPluginConfigFile(files, memory).resp
      [] v = "tenant" -> getPluginConfigTenant(files, memory, id).resp
      [] v = "data" -> getPluginConfigData(files, memory, id).resp
      [] v = "classifier" -> getPluginConfigClassifier(files, memory, id).resp

\* the config processMessage would use for a message of website id in edition v
ScreeningConfig(v, files, memory, id) ==
    CASE v \in {"memory", "file"} -> Loaded(memory)
      [] v = "tenant" -> loadPluginConfigTenant(files, id)
      [] v = "data" -> loadPluginConfigData(files, id)
      [] v = "classifier" -> loadPluginConfigClassifier(files, id)

\* this step handles one config request
HandlesRequest == reqNo' = reqNo + 1

HandlesPost == HandlesRequest /\ lastReq'.method = "POST"

(***************************************************************************)
(* Screening: POST /webhook and processMessage                             *)
(***************************************************************************)
\* the condition under which the webhook handler calls processMessage
AcceptsEvent(v, e) ==
    /\ e.event = "message:send"
    /\ e.from = "user"
    /\ v # "classifier" => e.type = "text"
    /\ v \in {"memory", "file"} => e.content.type = "string"

\* Each dispatch operation is entered when it is called and runs to its first await.
\* In the data edition postPrivateNoteToCrisp and tagCrispConversation have an empty
\* body: they return at once.
postPrivateNoteToCrisp(v, run) ==
    IF v = "data"
    THEN [run EXCEPT !.note = "returned", !.out = @ \o <<"note">>]
    ELSE [run EXCEPT !.note = "pending", !.out = @ \o <<"note", "note.post">>]

\* the test at the head of sendSlackNotification
SlackConfigured(v, config) ==
    IF v = "memory"
    THEN SlackWebhookUrl # <<>>
    ELSE Truthy(config.slackEnabled) /\ Truthy(config.slackWebhookUrl)

sendSlackNotification(v, run) ==
    IF SlackConfigured(v, run.config)
    THEN [run EXCEPT !.slack = "pending", !.out = @ \o <<"slack", "slack.post">>]
    ELSE [run EXCEPT !.slack = "skipped", !.out = @ \o <<"slack">>]

\* the classifier edition sends PATCH {data: {segments: [tag]}} without reading first
tagCrispConversation(v, run) ==
    CASE v = "data" -> [run EXCEPT !.tag = "returned", !.out = @ \o <<"tag">>]
      [] v = "classifier" ->
            [run EXCEPT !.tag = "patch", !.segments = <<run.config.tagToApply.s>>,
                        !.out = @ \o <<"tag", "tag.patch">>]
      [] OTHER -> [run EXCEPT !.tag = "get", !.out = @ \o <<"tag", "tag.get">>]

\* a processMessage that awaits the note before it calls the next operation
DispatchInTurn(v, run) == postPrivateNoteToCrisp(v, [run EXCEPT !.fired = TRUE])

\* await Promise.allSettled([postPrivateNoteToCrisp(..), sendSlackNotification(..),
\*                           tagCrispConversation(..)])
Dispatch(v, run) ==
    tagCrispConversation(v,
        sendSlackNotification(v,
            postPrivateNoteToCrisp(v, [run EXCEPT !.fired = TRUE])))

\* processMessage of the lexical editions, up to its await
processMessage(v, files, memory, run, analysis) ==
    LET e == run.event
        config == ScreeningConfig(v, files, memory, e.website_id)
        score == analysis.comparative
    IN  IF e.content.type # "string" \/ e.website_id = <<>> THEN run
        ELSE IF config.kind # "config" THEN run
        ELSE IF ~PassesProfanityCheck(v, e.content.s) THEN [run EXCEPT !.config = config.cfg]
        ELSE IF analysis.kind = "throw"
        THEN [run EXCEPT !.config = config.cfg, !.score = Thrown,
                         !.out = Append(@, "console.error")]
        ELSE IF /\ config.cfg.negativeThreshold.type = "number"
                /\ BelowThreshold(score, config.cfg.negativeThreshold.n)
        THEN Dispatch(v, [run EXCEPT !.config = config.cfg, !.score = JNum(score)])
        ELSE [run EXCEPT !.config = config.cfg, !.score = JNum(score)]

\* processMessage of the classifier edition, up to `await classifier(content)`
processMessageClassifier(files, run) ==
    LET e == run.event
        config == loadPluginConfigClassifier(files, e.website_id)
    IN  IF e.content.type # "string" \/ e.website_id = <<>> THEN run
        ELSE IF Trim(e.content.s) = <<>> THEN run
        ELSE IF config.kind # "config" \/ ~Truthy(config.cfg.detectionEnabled) THEN run
        ELSE [run EXCEPT !.pc = "scoring", !.config = config.cfg]

\* a processMessage whose scorer failure ends the process
ScorerCrashes(run, toxicResult) ==
    IF toxicResult = Thrown THEN [run EXCEPT !.pc = "crashed", !.score = Thrown]
    ELSE IF IsToxic(toxicResult)
    THEN Dispatch("classifier", [run EXCEPT !.pc = "running", !.score = toxicResult])
    ELSE [run EXCEPT !.pc = "running", !.score = toxicResult]

\* ... and from there on; a rejection lands in the catch, which logs it
classified(run, toxicResult) ==
    IF toxicResult = Thrown
    THEN [run EXCEPT !.pc = "running", !.score = Thrown,
                     !.out = Append(@, "console.error")]
    ELSE IF IsToxic(toxicResult)
    THEN Dispatch("classifier", [run EXCEPT !.pc = "running", !.score = toxicResult])
    ELSE [run EXCEPT !.pc = "running", !.score = toxicResult]

\* a handler that answers when processMessage has returned
AckLast(effects) == effects \o <<"ack">>

\* the handler's statements in order: res.sendStatus(200) comes first
WebhookTrace(effects) == <<"ack">> \o effects

\* app.post('/webhook'), up to the first await
webhook(v, files, memory, e, analysis) ==
    LET received == [IdleRun EXCEPT !.pc = "running", !.event = e, !.status = 200]
        called == [received EXCEPT !.out = <<"processMessage">>]
        run == IF ~AcceptsEvent(v, e) THEN received
               ELSE IF v = "classifier" THEN processMessageClassifier(files, called)
               ELSE processMessage(v, files, memory, called, analysis)
    IN  [run EXCEPT !.out = WebhookTrace(run.out)]

\* a notification failure that takes the other two operations down with it
SlackAborts(run, ok) ==
    IF ok THEN [run EXCEPT !.slack = "ok"]
    ELSE [run EXCEPT !.slack = "failed",
                     !.note = IF @ \in InFlight THEN "cancelled" ELSE @,
                     !.tag = IF @ \in InFlight THEN "cancelled" ELSE @]

\* sendSlackNotification after its fetch: a non-2xx answer and a network error are
\* logged inside the operation
SlackSettled(run, ok) == [run EXCEPT !.slack = IF ok THEN "ok" ELSE "failed"]

\* tagCrispConversation after its GET; segments is what Crisp answered
tagAfterGet(v, run, ok, segments) ==
    LET tag == run.config.tagToApply
        existingSegments == Unique(SelectSeq(segments, NonEmpty))
        normalizedTag == IF tag.type = "string" THEN TrimLower(tag.s) ELSE <<>>
        all == existingSegments \o <<normalizedTag>>
        updatedSegmentsStrings ==
            Unique(SelectSeq([i \in 1..Len(all) |-> TrimLower(all[i])], NonEmpty))
    IN  IF ~ok THEN [run EXCEPT !.tag = "failed", !.out = Append(@, "tag.error")]
        ELSE IF v = "tenant"
        THEN IF tag.type # "string"
             THEN [run EXCEPT !.tag = "failed", !.out = Append(@, "tag.error")]
             ELSE IF Includes([i \in 1..Len(segments) |-> ToLowerCase(segments[i])],
                              ToLowerCase(tag.s))
             THEN [run EXCEPT !.tag = "present"]
             ELSE [run EXCEPT !.tag = "patch", !.segments = Append(segments, tag.s),
                              !.out = Append(@, "tag.patch")]
        ELSE IF normalizedTag = <<>>
        THEN [run EXCEPT !.tag = "invalid", !.out = Append(@, "tag.error")]
        ELSE IF Includes([i \in 1..Len(existingSegments) |-> TrimLower(existingSegments[i])],
                         normalizedTag)
        THEN [run EXCEPT !.tag = "present"]
        ELSE [run EXCEPT !.tag = "patch", !.segments = updatedSegmentsStrings,
                         !.out = Append(@, "tag.patch")]

\* how Crisp answers a PATCH: 200, 400 "... should be string", another non-2xx
\* status, or no answer at all (network error)
PatchResponses == {"ok", "should be string", "rejected", "error"}

\* the status a PATCH that was not accepted leaves: "refused" for 400 "should be
\* string", "rejected" for another non-2xx answer, "failed" for a network error
Unaccepted(resp) ==
    CASE resp = "should be string" -> "refused"
      [] resp = "rejected" -> "rejected"
      [] OTHER -> "failed"

\* updatedSegmentsStrings.map(name => ({ name }))
updatedSegmentsObjects(updatedSegmentsStrings) ==
    [i \in 1..Len(updatedSegmentsStrings) |-> [name |-> updatedSegmentsStrings[i]]]

\* a tagCrispConversation that logs every first rejection and gives up
PatchGivesUp(v, run, resp) ==
    IF resp = "ok" THEN [run EXCEPT !.tag = "tagged"]
    ELSE [run EXCEPT !.tag = Unaccepted(resp), !.out = Append(@, "tag.error")]

\* tagCrispConversation after its PATCH. The classifier edition looks at no answer:
\* only a network error reaches its .catch and is logged
tagAfterPatch(v, run, resp) ==
    IF resp = "ok" THEN [run EXCEPT !.tag = "tagged"]
    ELSE IF v = "classifier" /\ resp # "error"
    THEN [run EXCEPT !.tag = Unaccepted(resp)]
    ELSE IF v \in {"memory", "file"} /\ resp = "rejected"
    THEN [run EXCEPT !.tag = "fallback",
                     !.segments = updatedSegmentsObjects(@),
                     !.out = Append(@, "tag.patch")]
    ELSE [run EXCEPT !.tag = Unaccepted(resp), !.out = Append(@, "tag.error")]

\* a tagCrispConversation that keeps trying the object format until Crisp accepts it
FallbackRetried(run, resp) ==
    IF resp = "ok" THEN [run EXCEPT !.tag = "tagged"]
    ELSE [run EXCEPT !.tag = "fallback", !.out = Append(@, "tag.patch")]

\* how Crisp answers the second PATCH: 200, a non-2xx status, or not at all
FallbackResponses == {"ok", "rejected", "error"}

\* tagCrispConversation after its second PATCH
tagAfterFallback(run, resp) ==
    IF resp = "ok" THEN [run EXCEPT !.tag = "tagged"]
    ELSE [run EXCEPT !.tag = Unaccepted(resp), !.out = Append(@, "tag.error")]

\* Crisp keeps the names of the segments it is sent as objects
SegmentNames(objects) == [i \in 1..Len(objects) |-> objects[i].name]

(***************************************************************************)
(* Screening as actions                                                    *)
(***************************************************************************)
\* what the settings page of a tenant that uses every feature has saved
TunedBody ==
    Body(JStr(<<"V">>), JNum(-5), JBool(TRUE), JStr(<<"u">>), JBool(TRUE), JBool(TRUE))

InitialMemory(v) ==
    CASE v = "memory" -> DefaultsMemory
      [] v = "file" -> loadPluginConfigFile(<<>>).cfg
      [] OTHER -> NoConfig

\* POST of TunedBody for TenantA on a fresh server
Tuned(v) ==
    CASE v = "memory" -> postPluginConfigMemory(<<>>, InitialMemory(v), TunedBody)
      [] v = "file" -> postPluginConfigFile(<<>>, InitialMemory(v), TunedBody, TRUE)
      [] v = "tenant" -> postPluginConfigTenant(<<>>, NoConfig, TenantA, TunedBody, TRUE)
      [] v = "data" -> postPluginConfigData(<<>>, NoConfig, TenantA, TunedBody, TRUE)
      [] v = "classifier" ->
            postPluginConfigClassifier(<<>>, NoConfig, TenantA, TunedBody, TRUE)

\* the server with its config as installed or as tuned, before any webhook
Init ==
    /\ variant \in ConfigVariants
    /\ \E start \in {Outcome(<<>>, InitialMemory(variant), NoResponse), Tuned(variant)} :
          /\ store = start.store
          /\ pluginConfig = start.pluginConfig
    /\ reqNo = 0
    /\ lastReq = NoRequest
    /\ lastResp = NoResponse
    /\ webhookNo = 0
    /\ runs = [r \in Runs |-> IdleRun]
    /\ convTags = <<Vip>>
    /\ ToxicityPipeline = Evaluated(variant)
    /\ alert = NoAlert

\* the promise of pipeline(...) is fulfilled: the .then of the set-up registers the
\* routes and calls app.listen
ModelLoaded ==
    /\ ToxicityPipeline.status = "pending"
    /\ ToxicityPipeline' = ModelReady(ToxicityPipeline)
    /\ UNCHANGED <<configVars, webhookNo, runs, convTags, alert>>

\* the promise is rejected: the .catch of the set-up calls process.exit(1)
ModelLoadFailed ==
    /\ ToxicityPipeline.status = "pending"
    /\ ToxicityPipeline' = [ToxicityPipeline EXCEPT !.status = "rejected"]
    /\ UNCHANGED <<configVars, webhookNo, runs, convTags, alert>>

Webhook(r) ==
    /\ Listening(variant, ToxicityPipeline)
    /\ webhookNo < MaxWebhooks
    /\ runs[r].pc \in {"idle", "done"}
    /\ \A q \in Runs : q < r => runs[q].pc \notin {"idle", "done"}
    /\ \E e \in Events, analysis \in Analyses :
          runs' = [runs EXCEPT ![r] = webhook(variant, store, pluginConfig, e, analysis)]
    /\ ToxicityPipeline' = IF runs'[r].pc = "scoring"
                           THEN getInstance(ToxicityPipeline)
                           ELSE ToxicityPipeline
    /\ webhookNo' = webhookNo + 1
    /\ UNCHANGED <<configVars, convTags, alert>>

ClassifierRespond(r) ==
    /\ runs[r].pc = "scoring"
    /\ \E toxicResult \in ClassifierResults :
          runs' = [runs EXCEPT ![r] = classified(runs[r], toxicResult)]
    /\ UNCHANGED <<configVars, webhookNo, convTags, ToxicityPipeline, alert>>

\* postPrivateNoteToCrisp after its fetch: a 2xx answer, another answer and a network
\* error are each logged, and the operation returns
NoteRespond(r) ==
    /\ runs[r].note = "pending"
    /\ runs' = [runs EXCEPT ![r].note = "settled"]
    /\ UNCHANGED <<configVars, webhookNo, convTags, ToxicityPipeline, alert>>

SlackRespond(r) ==
    /\ runs[r].slack = "pending"
    /\ \E ok \in BOOLEAN : runs' = [runs EXCEPT ![r] = SlackSettled(runs[r], ok)]
    /\ UNCHANGED <<configVars, webhookNo, convTags, ToxicityPipeline, alert>>

\* a tagCrispConversation that reads the tag from the stored config when Crisp answers
TagGetRespondLive(r) ==
    /\ runs[r].tag = "get"
    /\ \E ok \in BOOLEAN :
          LET live == ScreeningConfig(variant, store, pluginConfig,
                                      runs[r].event.website_id).cfg
          IN  runs' = [runs EXCEPT
                          ![r] = tagAfterGet(variant, [runs[r] EXCEPT !.config = live],
                                             ok, convTags)]
    /\ UNCHANGED <<configVars, webhookNo, convTags, ToxicityPipeline, alert>>

TagGetRespond(r) ==
    /\ runs[r].tag = "get"
    /\ \E ok \in BOOLEAN :
          runs' = [runs EXCEPT ![r] = tagAfterGet(variant, runs[r], ok, convTags)]
    /\ UNCHANGED <<configVars, webhookNo, convTags, ToxicityPipeline, alert>>

\* Crisp keeps the segments of a PATCH it accepts
TagPatchRespond(r) ==
    /\ runs[r].tag = "patch"
    /\ \E resp \in PatchResponses :
          /\ runs' = [runs EXCEPT ![r] = tagAfterPatch(variant, runs[r], resp)]
          /\ convTags' = IF resp = "ok" THEN runs[r].segments ELSE convTags
    /\ UNCHANGED <<configVars, webhookNo, ToxicityPipeline, alert>>

TagFallbackRespond(r) ==
    /\ runs[r].tag = "fallback"
    /\ \E resp \in FallbackResponses :
          /\ runs' = [runs EXCEPT ![r] = tagAfterFallback(runs[r], resp)]
          /\ convTags' = IF resp = "ok" THEN SegmentNames(runs[r].segments) ELSE convTags
    /\ UNCHANGED <<configVars, webhookNo, ToxicityPipeline, alert>>

\* Promise.allSettled resolves, processMessage and the handler return
Finish(r) ==
    /\ runs[r].pc = "running"
    /\ runs[r].note \notin InFlight
    /\ runs[r].slack \notin InFlight
    /\ runs[r].tag \notin InFlight
    /\ runs' = [runs EXCEPT ![r] = DoneRun]
    /\ UNCHANGED <<configVars, webhookNo, convTags, ToxicityPipeline, alert>>

Next ==
    \/ ModelLoaded
    \/ ModelLoadFailed
    \/ \E r \in Runs :
        \/ Webhook(r)
        \/ ClassifierRespond(r)
        \/ NoteRespond(r)
        \/ SlackRespond(r)
        \/ TagGetRespond(r)
        \/ TagPatchRespond(r)
        \/ TagFallbackRespond(r)
        \/ Finish(r)

Spec == Init /\ [][Next]_vars

\* one handler at a time: a webhook arrives when the handler of the one before it has
\* returned
SerialNext ==
    \/ ModelLoaded
    \/ ModelLoadFailed
    \/ Webhook(1)
    \/ ClassifierRespond(1)
    \/ NoteRespond(1)
    \/ SlackRespond(1)
    \/ TagGetRespond(1)
    \/ TagPatchRespond(1)
    \/ TagFallbackRespond(1)
    \/ Finish(1)

\* every outbound call is answered or fails, the classifier answers, and a handler
\* whose operations have settled returns
Fairness ==
    /\ WF_vars(ClassifierRespond(1))
    /\ WF_vars(NoteRespond(1))
    /\ WF_vars(SlackRespond(1))
    /\ WF_vars(TagGetRespond(1))
    /\ WF_vars(TagPatchRespond(1))
    /\ WF_vars(TagFallbackRespond(1))
    /\ WF_vars(Finish(1))

FairSpec == Init /\ [][SerialNext]_vars /\ Fairness

\* one handler at a time, and nothing said about which outbound calls get an answer
SerialSpec == Init /\ [][SerialNext]_vars

(***************************************************************************)
(* Config updates while a message is screened                              *)
(***************************************************************************)
MaxRetunes == 1    \* config updates per behaviour

\* a settings form that changes every field of the config as installed or as tuned
RetuneBody ==
    Body(JStr(<<"x">>), JNum(-15), JBool(FALSE), JStr(<<>>), JBool(FALSE), JBool(FALSE))

\* the POST handler of edition v
postPluginConfig(v, files, memory, id, body, writeOk) ==
    CASE v = "memory" -> postPluginConfigMemory(files, memory, body)
      [] v = "file" -> postPluginConfigFile(files, memory, body, writeOk)
      [] v = "tenant" -> postPluginConfigTenant(files, memory, id, body, writeOk)
      [] v = "data" -> postPluginConfigData(files, memory, id, body, writeOk)
      [] v = "classifier" -> postPluginConfigClassifier(files, memory, id, body, writeOk)

\* the tenant's settings are saved, whatever the webhook handler is doing
Retune ==
    /\ reqNo < MaxRetunes
    /\ \E writeOk \in BOOLEAN :
          Handled("POST", TenantA, RetuneBody,
                  postPluginConfig(variant, store, pluginConfig, TenantA, RetuneBody,
                                   writeOk))

LiveNext == SerialNext \/ Retune

SpecLive == Init /\ [][LiveNext]_vars

(***************************************************************************)
(* Composing the note, as actions                                          *)
(***************************************************************************)
\* the config of edition v with its highlight setting on or off
WithHighlight(v, flag) ==
    IF v = "memory" THEN DefaultsMemory
    ELSE [DefaultsFile EXCEPT !.highlightProfanity = JBool(flag)]

InitNote ==
    /\ variant \in LexicalVariants
    /\ store = <<>>
    /\ pluginConfig = InitialMemory(variant)
    /\ reqNo = 0
    /\ lastReq = NoRequest
    /\ lastResp = NoResponse
    /\ webhookNo = 0
    /\ runs = [r \in Runs |-> IdleRun]
    /\ convTags = <<>>
    /\ ToxicityPipeline = Unloaded
    /\ alert = NoAlert

\* processMessage finds profanity in a message and scores it below the threshold
ComposeNote ==
    /\ \E content \in NoteMessages, score \in NoteScores, threshold \in NoteThresholds,
          flag \in BOOLEAN :
          /\ PassesProfanityCheck(variant, content)
          /\ BelowThreshold(score, threshold)
          /\ alert' = composeAlert(variant, content, score, WithHighlight(variant, flag))
    /\ UNCHANGED <<configVars, webhookNo, runs, convTags, ToxicityPipeline>>

SpecNote == InitNote /\ [][ComposeNote]_vars

(***************************************************************************)
(* What a run has done                                                     *)
(***************************************************************************)
DispatchEffects ==
    {"note", "note.post", "slack", "slack.post", "tag", "tag.get", "tag.patch"}

\* no dispatch operation was called and no outbound call made
NoDispatch(run) == \A i \in 1..Len(run.out) : run.out[i] \notin DispatchEffects

\* processMessage of a lexical edition has been given the text message of slot r
Screened(r) ==
    /\ variant \in LexicalVariants
    /\ runs[r].pc = "running"
    /\ Includes(runs[r].out, "processMessage")
    /\ runs[r].event.content.type = "string"

\* ... and has loaded a config for it, and the scorer has not thrown
Decided(r) == Screened(r) /\ runs[r].config # NoConfig /\ runs[r].score # Thrown

TagSettled == {"tagged", "present", "refused", "rejected", "failed", "invalid", "returned"}

NoteSettled == {"settled", "returned"}

\* the conversation carries the tag, compared after trim and lower-casing
TagPresent(segments, tag) ==
    /\ tag.type = "string"
    /\ \E i \in 1..Len(segments) : TrimLower(segments[i]) = TrimLower(tag.s)

(***************************************************************************)
(* C1, as stated: in the lexical editions a message for which              *)
(* getAllProfanitiesInMessage returns no term causes no dispatch operation *)
(* (no note POST, no tag GET or PATCH, no notification POST).              *)
(***************************************************************************)
C1_NoMatchedTermNoDispatch ==
    \A r \in Runs :
        (Screened(r) /\ getAllProfanitiesInMessage(runs[r].event.content.s) = <<>>)
            => NoDispatch(runs[r])

(***************************************************************************)
(* C1, amended: in the lexical editions a message in which                 *)
(* profanity.exists finds no listed word, neither in the text nor in the   *)
(* text stripped of its non-alphanumeric characters, causes no dispatch    *)
(* operation, whatever its score and the threshold.                        *)
(***************************************************************************)
C1_NoProfanityNoDispatch ==
    \A r \in Runs :
        (/\ Screened(r)
         /\ ~ProfanityExists(runs[r].event.content.s)
         /\ ~ProfanityExists(NormalizedContent(runs[r].event.content.s)))
            => NoDispatch(runs[r])

\* a clean message has gone through processMessage with a config loaded
C1_Witness ==
    \E r \in Runs :
        /\ Decided(r)
        /\ runs[r].event.content.s = Ok
        /\ NoDispatch(runs[r])

(***************************************************************************)
(* C2: for a message with at least one matched term that processMessage    *)
(* decides on, the alert fires exactly when score < negativeThreshold: not *)
(* at the threshold, not above it, always below it.                        *)
(***************************************************************************)
C2_FiresIffBelowThreshold ==
    \A r \in Runs :
        (Decided(r) /\ getAllProfanitiesInMessage(runs[r].event.content.s) # <<>>)
            => /\ runs[r].score.type = "number"
               /\ runs[r].config.negativeThreshold.type = "number"
               /\ runs[r].fired <=> runs[r].score.n < runs[r].config.negativeThreshold.n
               /\ runs[r].fired <=> ~NoDispatch(runs[r])

\* a message with a matched term scored exactly the threshold, and nothing fired
C2_Witness ==
    \E r \in Runs :
        /\ Decided(r)
        /\ getAllProfanitiesInMessage(runs[r].event.content.s) # <<>>
        /\ runs[r].score = runs[r].config.negativeThreshold
        /\ ~runs[r].fired

(***************************************************************************)
(* C3: when the notification call of a fired alert fails, the note         *)
(* operation and the tag operation have each been called exactly once, and *)
(* both go on to settle.                                                   *)
(***************************************************************************)
SlackFailed(r) == runs[r].pc = "running" /\ runs[r].slack = "failed"

OthersCalledOnce(r) ==
    /\ Count(runs[r].out, "note") = 1
    /\ Count(runs[r].out, "tag") = 1

OthersSettled(r) == runs[r].note \in NoteSettled /\ runs[r].tag \in TagSettled

C3_NotificationFailureIsIsolated ==
    \A r \in Runs :
        /\ [](SlackFailed(r) => OthersCalledOnce(r))
        /\ SlackFailed(r) ~> (SlackFailed(r) /\ OthersSettled(r))

\* the notification failed, the note was posted and the conversation tagged
C3_Witness ==
    \E r \in Runs :
        /\ SlackFailed(r)
        /\ OthersCalledOnce(r)
        /\ runs[r].note = "settled"
        /\ runs[r].tag = "tagged"

(***************************************************************************)
(* C6: a tag operation that finds the conversation already carrying the    *)
(* tag (equal after trim and lower-casing), as after an earlier run whose  *)
(* PATCH was accepted, sends no PATCH.                                     *)
(***************************************************************************)
C6_TagPresentNoPatch ==
    [][\A r \in Runs :
          (/\ Count(runs[r].out, "tag.patch") = 0
           /\ Count(runs'[r].out, "tag.patch") = 1)
              => ~TagPresent(convTags, runs'[r].config.tagToApply)]_vars

(***************************************************************************)
(* C10: the 200 answer of POST /webhook is the first thing a handler does, *)
(* before processMessage is called and before any outbound call, and the   *)
(* status is 200 whatever screening then does.                             *)
(***************************************************************************)
C10_AckFirst ==
    \A r \in Runs :
        runs[r].pc \in {"scoring", "running"}
            => /\ runs[r].status = 200
               /\ runs[r].out # <<>>
               /\ Head(runs[r].out) = "ack"
               /\ Count(runs[r].out, "ack") = 1

\* an alert has fired, its note POST went out, and the answer came before it
C10_Witness ==
    \E r \in Runs :
        /\ runs[r].fired
        /\ runs[r].status = 200
        /\ Head(runs[r].out) = "ack"
        /\ Includes(runs[r].out, "note.post")

(***************************************************************************)
(* C11: an event that is not a text message of a user with some text in it *)
(* (event 'message:send', from 'user', type 'text', non-empty content) is  *)
(* neither scored nor followed by any dispatch operation or outbound call. *)
(***************************************************************************)
IsUserText(e) ==
    /\ e.event = "message:send"
    /\ e.from = "user"
    /\ e.type = "text"
    /\ e.content.type = "string"
    /\ e.content.s # <<>>

C11_OnlyUserTextScreened ==
    \A r \in Runs :
        (runs[r].pc \in {"scoring", "running"} /\ ~IsUserText(runs[r].event))
            => /\ runs[r].pc # "scoring"
               /\ runs[r].score = JUndef
               /\ NoDispatch(runs[r])

(***************************************************************************)
(* C12 as stated: in the editions with the format fallback, whenever Crisp *)
(* rejects the first PATCH (a non-2xx answer), one further PATCH follows   *)
(* with the same tag set as objects with a name field.                     *)
(***************************************************************************)
FallbackVariants == {"memory", "file"}

\* slot r hears about its first PATCH
FirstPatchAnswered(r) ==
    /\ variant \in FallbackVariants
    /\ runs[r].tag = "patch"
    /\ runs'[r].tag # "patch"

\* slot r hears about its second PATCH
FallbackAnswered(r) ==
    /\ variant \in FallbackVariants
    /\ runs[r].tag = "fallback"
    /\ runs'[r].tag # "fallback"

\* the second PATCH goes out with the same names, as objects
RetriesAsObjects(r) ==
    /\ runs'[r].tag = "fallback"
    /\ runs'[r].out = Append(runs[r].out, "tag.patch")
    /\ runs'[r].segments = updatedSegmentsObjects(runs[r].segments)

C12_EveryRejectionRetried ==
    [][\A r \in Runs :
          (FirstPatchAnswered(r) /\ runs'[r].tag \notin {"tagged", "failed"})
              => RetriesAsObjects(r)]_vars

(***************************************************************************)
(* C12 amended: a first PATCH answered 400 "should be string" is logged    *)
(* and given up without a second PATCH; a first PATCH rejected with any    *)
(* other non-2xx answer is followed by exactly one further PATCH with the  *)
(* same tag set as objects with a name field, and when that one is not     *)
(* accepted either the failure is logged and no third PATCH is sent.       *)
(***************************************************************************)
C12_RejectionRetriedUnlessShouldBeString ==
    [][\A r \in Runs :
          /\ FirstPatchAnswered(r) =>
                /\ runs'[r].tag \in {"tagged", "refused", "fallback", "failed"}
                /\ runs'[r].tag = "fallback" => RetriesAsObjects(r)
                /\ runs'[r].tag \in {"refused", "failed"} =>
                        runs'[r].out = Append(runs[r].out, "tag.error")
          /\ FallbackAnswered(r) =>
                /\ runs'[r].tag \in {"tagged", "rejected", "failed"}
                /\ Count(runs'[r].out, "tag.patch") = 2
                /\ runs'[r].tag = "tagged" => runs'[r].out = runs[r].out
                /\ runs'[r].tag # "tagged" =>
                        runs'[r].out = Append(runs[r].out, "tag.error")]_vars

\* the second PATCH was rejected too and the operation has given up
C12_Witness ==
    \E r \in Runs :
        /\ variant \in FallbackVariants
        /\ runs[r].tag = "rejected"
        /\ Count(runs[r].out, "tag.patch") = 2
        /\ Includes(runs[r].out, "tag.error")

(***************************************************************************)
(* C13: for one alert, whatever the answers, the note POST goes out at     *)
(* most once, the notification POST at most once, the metadata GET at most *)
(* once and the tag PATCH at most twice, the second one only as the format *)
(* fallback of the editions that have it.                                  *)
(***************************************************************************)
C13_NoRetryButTheFallback ==
    \A r \in Runs :
        /\ Count(runs[r].out, "note.post") <= 1
        /\ Count(runs[r].out, "slack.post") <= 1
        /\ Count(runs[r].out, "tag.get") <= 1
        /\ Count(runs[r].out, "tag.patch") <= 2
        /\ Count(runs[r].out, "tag.patch") = 2 =>
                /\ variant \in FallbackVariants
                /\ runs[r].tag \in {"fallback", "tagged", "rejected", "failed"}

\* every call of an alert has gone out, the fallback included, and all have failed
C13_Witness ==
    \E r \in Runs :
        /\ runs[r].fired
        /\ runs[r].note = "settled"
        /\ runs[r].slack = "failed"
        /\ runs[r].tag = "rejected"
        /\ Count(runs[r].out, "note.post") = 1
        /\ Count(runs[r].out, "slack.post") = 1
        /\ Count(runs[r].out, "tag.get") = 1
        /\ Count(runs[r].out, "tag.patch") = 2

(***************************************************************************)
(* C14: no handler ends by a rejection or a throw, and every failure of a  *)
(* dispatch operation (a network error, a non-2xx answer) is logged where  *)
(* it occurs; stated here for the tag operation, whose log is kept.        *)
(***************************************************************************)
TagNotAccepted == {"refused", "rejected", "failed"}

C14_FailuresSwallowedAndLogged ==
    \A r \in Runs :
        /\ runs[r].pc \in {"idle", "scoring", "running", "done"}
        /\ runs[r].tag \in TagNotAccepted => Includes(runs[r].out, "tag.error")

(***************************************************************************)
(* C15: when an alert fires, the notification POST goes out only if the    *)
(* tenant's slackEnabled flag is true, and the note and tag operations are *)
(* called whatever the flag.                                               *)
(***************************************************************************)
C15_NotificationOnlyWhenEnabled ==
    \A r \in Runs :
        runs[r].fired =>
            /\ Includes(runs[r].out, "slack.post") =>
                    runs[r].config.slackEnabled = JBool(TRUE)
            /\ Includes(runs[r].out, "note")
            /\ Includes(runs[r].out, "tag")

(***************************************************************************)
(* C16 as stated: after any sequence of config reads and updates from an   *)
(* empty store, every config returned or loaded for a valid identifier has *)
(* a defined tagToApply, negativeThreshold, slackEnabled, slackWebhookUrl  *)
(* and highlightProfanity.                                                 *)
(***************************************************************************)
ValidIds == {TenantA, TenantB}

AllDefined(config) == \A f \in LexicalFields : config[f].type # "undefined"

\* what GET returns and what processMessage loads, for every valid identifier
ConfigsComplete ==
    \A id \in ValidIds :
        /\ ReadConfig(variant, store, pluginConfig, id).status = 200
        /\ AllDefined(ReadConfig(variant, store, pluginConfig, id).config)
        /\ ScreeningConfig(variant, store, pluginConfig, id).kind = "config"
        /\ AllDefined(ScreeningConfig(variant, store, pluginConfig, id).cfg)

C16_EveryConfigComplete == ConfigsComplete

(***************************************************************************)
(* C16 amended: the same, in the file, tenant and data editions. (The      *)
(* config of the memory edition has tagToApply and negativeThreshold only, *)
(* that of the classifier edition has tagToApply, detectionEnabled,        *)
(* slackEnabled and slackWebhookUrl.)                                      *)
(***************************************************************************)
FiveFieldVariants == {"file", "tenant", "data"}

C16_FiveFieldEditionsComplete == variant \in FiveFieldVariants => ConfigsComplete

\* a tenant's config was saved from a body that left fields out
C16_Witness ==
    /\ variant = "tenant"
    /\ lastReq.method = "POST"
    /\ lastReq.id = TenantA
    /\ lastResp.status = 200
    /\ Supplied(lastReq.body) # {}
    /\ LexicalFields \ Supplied(lastReq.body) # {}
    /\ store # <<>>
    /\ ConfigsComplete

(***************************************************************************)
(* C17: in the classifier edition, until the model load has completed no   *)
(* webhook event has been accepted and the classifier has not been invoked *)
(* on any message; a load that failed stays failed, so the server never    *)
(* starts accepting events.                                                *)
(***************************************************************************)
NothingAccepted == webhookNo = 0 /\ \A r \in Runs : runs[r] = IdleRun

C17_NothingBeforeModelLoaded ==
    /\ []((variant = "classifier" /\ ToxicityPipeline.status # "fulfilled")
              => NothingAccepted)
    /\ [][ToxicityPipeline.status = "rejected"
              => ToxicityPipeline'.status = "rejected"]_vars

\* the model is loaded and the classifier is at work on a message
C17_Witness ==
    /\ variant = "classifier"
    /\ ToxicityPipeline.status = "fulfilled"
    /\ \E r \in Runs : runs[r].pc = "scoring" /\ runs[r].event.content = JStr(Bad)

(***************************************************************************)
(* C18: getInstance starts the model load at most once, whatever the       *)
(* number of calls and whether the load is pending, done or failed when    *)
(* they are made; the instance, once set, is the one every caller gets;    *)
(* and the life cycle moves forward only: unloaded, loading, ready.        *)
(***************************************************************************)
\* the states the static can be in
PipelineStates ==
    {Unloaded} \cup {[instance |-> 1, loads |-> 1, status |-> s] :
                         s \in {"pending", "fulfilled", "rejected"}}

Stage(status) ==
    CASE status = "none" -> 0
      [] status = "pending" -> 1
      [] OTHER -> 2

C18_ModelLoadedOnce ==
    /\ [](/\ ToxicityPipeline.loads <= 1
          /\ \A p \in PipelineStates :
                /\ getInstance(p).loads <= 1
                /\ p.instance # 0 => getInstance(p) = p)
    /\ [][/\ ToxicityPipeline.instance # 0
                => ToxicityPipeline'.instance = ToxicityPipeline.instance
          /\ Stage(ToxicityPipeline'.status) >= Stage(ToxicityPipeline.status)
          /\ ToxicityPipeline.status = "fulfilled"
                => ToxicityPipeline'.status = "fulfilled"]_vars

\* two handlers have called getInstance and wait for the classifier
C18_Witness ==
    /\ variant = "classifier"
    /\ ToxicityPipeline = [instance |-> 1, loads |-> 1, status |-> "fulfilled"]
    /\ \A r \in Runs : runs[r].pc = "scoring"

(***************************************************************************)
(* C19: when the scorer throws or rejects on a message, no dispatch        *)
(* operation is called and no outbound call made for that message, the     *)
(* failure is logged, and the handler goes on to return as for any message *)
(* without an alert, so that later events are handled.                     *)
(***************************************************************************)
C19_ScorerFailureIsNoAlert ==
    \A r \in Runs :
        runs[r].score = Thrown
            => /\ runs[r].pc = "running"
               /\ ~runs[r].fired
               /\ NoDispatch(runs[r])
               /\ runs[r].note = "none" /\ runs[r].slack = "none" /\ runs[r].tag = "none"
               /\ Includes(runs[r].out, "console.error")

\* the scorer failed on one message and the next one fired its alert
C19_Witness ==
    /\ runs[1].score = Thrown
    /\ runs[2].fired
    /\ ~NoDispatch(runs[2])

(***************************************************************************)
(* C20: the body of the PATCH that the tag operation sends holds every tag *)
(* the conversation already has (after trim and lower-casing) and the new  *)
(* tag, without duplicates: no tag of the conversation is dropped.         *)
(***************************************************************************)
\* slot r sends its first PATCH in this step
SendsPatch(r) ==
    /\ Count(runs[r].out, "tag.patch") = 0
    /\ Count(runs'[r].out, "tag.patch") = 1

\* the segments of the body slot r sends, trimmed and lower-cased
PatchBody(r) == [i \in 1..Len(runs'[r].segments) |-> TrimLower(runs'[r].segments[i])]

C20_PatchKeepsExistingTags ==
    [][\A r \in Runs :
          SendsPatch(r) =>
              /\ \A i \in 1..Len(convTags) : Includes(PatchBody(r), TrimLower(convTags[i]))
              /\ Includes(PatchBody(r), TrimLower(runs'[r].config.tagToApply.s))
              /\ Unique(PatchBody(r)) = PatchBody(r)]_vars

(***************************************************************************)
(* C21: the matched terms put in an alert never hold two entries that are  *)
(* equal when both are lower-cased.                                        *)
(***************************************************************************)
C21_MatchedTermsUniqueIgnoringCase ==
    \A i, j \in 1..Len(alert.uniqueProfaneWords) :
        i # j => ToLowerCase(alert.uniqueProfaneWords[i])
                    # ToLowerCase(alert.uniqueProfaneWords[j])

(***************************************************************************)
(* C22: the summary of a score is 'Very Negative' for score <= -1,         *)
(* 'Negative' for -1 < score < 0, 'Neutral' for 0, 'Positive' for          *)
(* 0 < score < 1 and 'Very Positive' for score >= 1, whatever the edition  *)
(* and its config.                                                         *)
(***************************************************************************)
C22_SummaryBuckets ==
    alert # NoAlert =>
        /\ alert.sentimentSummary = "Very Negative" <=> alert.score <= -10
        /\ alert.sentimentSummary = "Negative" <=> (-10 < alert.score /\ alert.score < 0)
        /\ alert.sentimentSummary = "Neutral" <=> alert.score = 0
        /\ alert.sentimentSummary = "Positive" <=> (0 < alert.score /\ alert.score < 10)
        /\ alert.sentimentSummary = "Very Positive" <=> alert.score >= 10

\* a score of exactly -1 has been summarised
C22_Witness == alert.score = -10 /\ alert.sentimentSummary = "Very Negative"

(***************************************************************************)
(* C29: with highlightProfanity true, every occurrence of a matched term   *)
(* is wrapped in exactly one pair of markers, whatever its casing, and the *)
(* rest of the text is unchanged; with highlightProfanity false the        *)
(* rendered text is the message itself.                                    *)
(***************************************************************************)
\* the message with each matched token wrapped once, from position i on
RECURSIVE WrappedOnce(_, _)
WrappedOnce(text, i) ==
    IF i > Len(text) THEN <<>>
    ELSE IF IsWordChar(text[i])
    THEN LET token == TakeWord(SubSeq(text, i, Len(text)))
         IN  (IF InProfaneList(token) THEN <<"*", "*">> \o token \o <<"*", "*">> ELSE token)
                 \o WrappedOnce(text, i + Len(token))
    ELSE <<text[i]>> \o WrappedOnce(text, i + 1)

C29_EachOccurrenceWrappedOnce ==
    alert # NoAlert =>
        /\ alert.highlightProfanity = JBool(TRUE)
                => alert.highlightedMessage = WrappedOnce(alert.content, 1)
        /\ alert.highlightProfanity = JBool(FALSE)
                => alert.highlightedMessage = alert.content

(***************************************************************************)
(* C23: in the classifier edition a scored message fires its alert exactly *)
(* when the score of the 'toxic' label is above 0.8: not at 0.8, not when  *)
(* the label is missing, and whatever the tenant has saved as its config.  *)
(***************************************************************************)
\* the classifier has answered for the message of slot r
Classified(r) ==
    /\ variant = "classifier"
    /\ runs[r].pc = "running"
    /\ runs[r].score \in ToxicScores
    /\ runs[r].config # NoConfig

C23_FiresIffAboveConstant ==
    \A r \in Runs :
        Classified(r) =>
            /\ runs[r].fired <=> (runs[r].score.type = "number" /\ runs[r].score.n > 8)
            /\ runs[r].fired <=> ~NoDispatch(runs[r])

\* a tenant that has saved its own config, a message scored exactly 0.8, no alert
C23_Witness ==
    \E r \in Runs :
        /\ Classified(r)
        /\ runs[r].config # DefaultsClassifier
        /\ runs[r].score = JNum(8)
        /\ ~runs[r].fired

(***************************************************************************)
(* C24: after any sequence of config updates, the tagToApply stored for a  *)
(* tenant is a non-empty string without leading or trailing whitespace and *)
(* in lower case.                                                          *)
(***************************************************************************)
C24_StoredTagNormalized ==
    \A id \in ValidIds :
        LET config == ScreeningConfig(variant, store, pluginConfig, id)
        IN  config.kind = "config" =>
                /\ config.cfg.tagToApply.type = "string"
                /\ config.cfg.tagToApply.s # <<>>
                /\ config.cfg.tagToApply.s = TrimLower(config.cfg.tagToApply.s)

(***************************************************************************)
(* C25: when an alert fires, the three operations are all called before    *)
(* any of them is waited on; and if the outbound call of one of them never *)
(* gets an answer while those of the other two do, the other two still     *)
(* settle.                                                                 *)
(***************************************************************************)
NoteAnswered == WF_vars(NoteRespond(1))

SlackAnswered == WF_vars(SlackRespond(1))

TagAnswered ==
    /\ WF_vars(TagGetRespond(1))
    /\ WF_vars(TagPatchRespond(1))
    /\ WF_vars(TagFallbackRespond(1))

AllCalled(r) ==
    /\ Count(runs[r].out, "note") = 1
    /\ Count(runs[r].out, "slack") = 1
    /\ Count(runs[r].out, "tag") = 1

NoteDone(r) == runs[r].note \in NoteSettled

SlackDone(r) == runs[r].slack \in {"skipped", "ok", "failed"}

TagDone(r) == runs[r].tag \in TagSettled

C25_HangDoesNotBlockOthers ==
    /\ [](runs[1].fired => AllCalled(1))
    /\ (NoteAnswered /\ TagAnswered) => (runs[1].fired ~> (NoteDone(1) /\ TagDone(1)))
    /\ (SlackAnswered /\ TagAnswered) => (runs[1].fired ~> (SlackDone(1) /\ TagDone(1)))
    /\ (NoteAnswered /\ SlackAnswered) => (runs[1].fired ~> (NoteDone(1) /\ SlackDone(1)))

\* the notification is still waiting for its answer; the note is posted and the
\* conversation tagged
C25_Witness ==
    /\ runs[1].fired
    /\ runs[1].slack = "pending"
    /\ runs[1].note = "settled"
    /\ runs[1].tag = "tagged"

(***************************************************************************)
(* C26: two config updates of the same tenant that are in the server at    *)
(* the same time leave the store as if one had been applied after the      *)
(* other: the handler reads, merges and writes in one synchronous turn, so *)
(* the config it writes is the config stored when it ran (an earlier       *)
(* update's fields included) with the fields its body validly set.         *)
(***************************************************************************)
SerializedVariants == {"tenant", "data"}

StoredFor(files, id) == ScreeningConfig(variant, files, pluginConfig, id).cfg

C26_UpdatesApplyOneAfterTheOther ==
    [][(HandlesPost /\ variant \in SerializedVariants /\ lastReq'.id \in ValidIds
          /\ lastResp'.status = 200)
          => LET before == StoredFor(store, lastReq'.id)
                 merged == MergeValid(before, lastReq'.body, LexicalFields)
             IN  /\ StoredFor(store', lastReq'.id) \in {before, merged}
                 /\ store' # store => StoredFor(store', lastReq'.id) = merged
                 /\ lastResp'.config = merged]_vars

\* two updates of one tenant are stored: the tag of one, the threshold of the other
C26_Witness ==
    /\ variant \in SerializedVariants
    /\ reqNo = 2
    /\ lastReq.method = "POST"
    /\ lastResp.status = 200
    /\ lastReq.id = TenantA
    /\ StoredFor(store, TenantA).tagToApply = JStr(<<"V">>)
    /\ StoredFor(store, TenantA).negativeThreshold = JNum(-10)

(***************************************************************************)
(* C27: when two handlers screen messages of the same conversation at the  *)
(* same time and apply the same tag, which the conversation does not yet   *)
(* carry, at most one of them sends the PATCH: the two never both have     *)
(* their PATCH for that tag in flight.                                     *)
(***************************************************************************)
ReadsBeforeWrite == {"memory", "file", "tenant"}

PatchInFlight(r) == runs[r].tag = "patch"

C27_PatchIssuedByAtMostOne ==
    (/\ variant \in ReadsBeforeWrite
     /\ runs[1].event.website_id = runs[2].event.website_id
     /\ runs[1].config.tagToApply = runs[2].config.tagToApply)
        => ~(PatchInFlight(1) /\ PatchInFlight(2))

(***************************************************************************)
(* C28: within one processMessage run everything that depends on the       *)
(* config comes from the config as the run read it. The run's config does  *)
(* not change while the run is in progress, a config update changes        *)
(* nothing of a run, the notification is sent exactly when that config     *)
(* enables it, and the PATCH carries that config's tag, whatever the store *)
(* holds by then.                                                          *)
(***************************************************************************)
InProgress(r) == runs[r].pc \notin {"idle", "done"}

\* the alert of slot r fires in this step
Fires(r) == ~runs[r].fired /\ runs'[r].fired

\* the tag of the config slot r read is among the segments it sends
CarriesOwnTag(r) ==
    \E i \in 1..Len(runs'[r].segments) :
        TrimLower(runs'[r].segments[i]) = TrimLower(runs'[r].config.tagToApply.s)

C28_RunUsesTheConfigItRead ==
    [][/\ (InProgress(1) /\ runs'[1].pc # "done") => runs'[1].config = runs[1].config
       /\ HandlesPost => runs' = runs
       /\ Fires(1) =>
             (runs'[1].slack = "pending" <=> SlackConfigured(variant, runs'[1].config))
       /\ (SendsPatch(1) /\ runs'[1].config.tagToApply.type = "string")
             => CarriesOwnTag(1)]_vars

\* the conversation was tagged by a run whose tag the store no longer holds
C28_Witness ==
    /\ reqNo = 1
    /\ runs[1].tag = "tagged"
    /\ runs[1].config.tagToApply.type = "string"
    /\ ScreeningConfig(variant, store, pluginConfig, runs[1].event.website_id)
          .cfg.tagToApply = JStr(<<"x">>)
    /\ runs[1].config.tagToApply # JStr(<<"x">>)
    /\ \E i \in 1..Len(convTags) : convTags[i] = TrimLower(runs[1].config.tagToApply.s)

(***************************************************************************)
(* C30: a config update is answered 200 with ok: true only if the new      *)
(* configuration was written to the store: after such an answer the        *)
(* config file holds the configuration of the response.                    *)
(***************************************************************************)
FileBacked == {"file", "tenant", "data"}

\* the config a restarted server would load from the files for id
OnDisk(files, id) ==
    CASE variant = "file" -> loadPluginConfigFile(files).cfg
      [] variant = "tenant" -> loadPluginConfigTenant(files, id).cfg
      [] OTHER -> loadPluginConfigData(files, id).cfg

C30_SuccessMeansWritten ==
    [][(/\ HandlesPost
        /\ variant \in FileBacked
        /\ variant = "file" \/ lastReq'.id \in ValidIds
        /\ lastResp'.status = 200
        /\ lastResp'.ok)
          => \A f \in LexicalFields :
                OnDisk(store', lastReq'.id)[f] = lastResp'.config[f]]_vars

(***************************************************************************)
(* C4: a config update with an invalid field is answered with an error and *)
(* leaves the configuration as it was, as a later read returns it and as   *)
(* later screening uses it.                                                *)
(***************************************************************************)
C4_RejectedUpdateChangesNothing ==
    [][(HandlesPost /\ ValidationErrors(lastReq'.body, ValidatedFields(variant)) # {})
          => /\ lastResp'.status >= 400
             /\ \A id \in AllIds :
                   /\ ReadConfig(variant, store', pluginConfig', id)
                        = ReadConfig(variant, store, pluginConfig, id)
                   /\ ScreeningConfig(variant, store', pluginConfig', id)
                        = ScreeningConfig(variant, store, pluginConfig, id)]_vars

(***************************************************************************)
(* C5: after a successful config update every field the request body did   *)
(* not supply reads back with the value it had before the update.          *)
(***************************************************************************)
C5_OmittedFieldsKeepValue ==
    [][(HandlesPost /\ lastResp'.status = 200)
          => \A f \in Fields \ Supplied(lastReq'.body) :
                ReadConfig(variant, store', pluginConfig', lastReq'.id).config[f]
                  = ReadConfig(variant, store, pluginConfig, lastReq'.id).config[f]]_vars

\* a successful update has left alone a threshold that an earlier update had set
C5_Witness ==
    /\ lastReq.method = "POST"
    /\ lastResp.status = 200
    /\ lastReq.body.tagToApply.type = "string"
    /\ "negativeThreshold" \notin Supplied(lastReq.body)
    /\ ReadConfig(variant, store, pluginConfig, lastReq.id).config.negativeThreshold
         = JNum(-10)

(***************************************************************************)
(* C7: every stored config that has slackEnabled true has a non-empty      *)
(* slackWebhookUrl.                                                        *)
(***************************************************************************)
C7_EnabledHasTarget ==
    \A file \in DOMAIN store :
        store[file].slackEnabled = JBool(TRUE)
            => /\ store[file].slackWebhookUrl.type = "string"
               /\ store[file].slackWebhookUrl.s # <<>>

(***************************************************************************)
(* C8: a config read or update for a website_id that fails the format      *)
(* check is answered with 400, returns no configuration and leaves the     *)
(* files as they were.                                                     *)
(***************************************************************************)
C8_InvalidIdIsClientError ==
    [][(/\ HandlesRequest
        /\ variant \in PerTenantVariants
        /\ ConfigFilePath(variant, lastReq'.id).kind # "path")
          => /\ lastResp'.status = 400
             /\ lastResp'.config = NoConfig
             /\ store' = store]_vars

(***************************************************************************)
(* C9: a config update for one website_id changes neither the config read  *)
(* for another website_id nor the config used to screen its messages.      *)
(***************************************************************************)
C9_UpdateLeavesOtherTenants ==
    [][(HandlesPost /\ variant \in PerTenantVariants)
          => \A other \in AllIds \ {lastReq'.id} :
                /\ ReadConfig(variant, store', pluginConfig', other)
                     = ReadConfig(variant, store, pluginConfig, other)
                /\ ScreeningConfig(variant, store', pluginConfig', other)
                     = ScreeningConfig(variant, store, pluginConfig, other)]_vars

====
